---------------------------- MODULE Spec2Model ----------------------------
(***************************************************************************)
(* Ticket-resolution pipeline of the AI ticket system.                     *)
(*                                                                         *)
(*   agents/ticket_processor.py  TicketProcessor (process_ticket,          *)
(*                               batch_process_tickets)                    *)
(*   agents/ticket_analysis.py   TicketAnalysisAgent (analyze_ticket,      *)
(*                               _analyze_sentiment)                       *)
(*   agents/response_agent.py    ResponseAgent (generate_response)         *)
(*   agents/data_types.py        the records                               *)
(*                                                                         *)
(* One batch_process_tickets call on one TicketProcessor is modelled: the  *)
(* asyncio event loop, one task per ticket, the three external calls of    *)
(* each task with every outcome they can have, and the shared context.     *)
(*                                                                         *)
(* Scheduling.  asyncio.gather wraps each process_ticket coroutine in a    *)
(* task; the loop runs the tasks in creation order, one at a time, and a   *)
(* task gives the loop back only where it awaits something that is not     *)
(* finished.  The three external calls are made through the synchronous    *)
(* clients (OpenAI, InferenceClient) and are not awaited; the only awaits  *)
(* in a task are of coroutines that themselves never suspend.  A task      *)
(* therefore holds the loop from its first statement to its return         *)
(* (Yields below).                                                         *)
(*                                                                         *)
(* Numbers.  A similarity score s and a confidence score s stand for       *)
(* s / MaxScore, so the interval [-1, 1] is -MaxScore .. MaxScore.  The    *)
(* clock counts ticks.                                                     *)
(*                                                                         *)
(* Specifications.  Spec is the batch; SpecTimed lets the wall clock       *)
(* change during one ticket; SpecTicket resolves one ticket under every    *)
(* answer of the services and logs the answers; SpecStats reads the        *)
(* statistics during a batch; SpecLive is the batch with fairness.         *)
(***************************************************************************)
EXTENDS Integers, Sequences, FiniteSets, TLC

\* Largest batch; the batch length is chosen in Init.
MaxTickets == 2
\* Resolution of the similarity scores: 1.0 is MaxScore.
MaxScore == 1
\* How far the clock runs in SpecTimed.
MaxClock == 2

VARIABLES
    tickets,     \* the list handed to batch_process_tickets
    batchPc,     \* position of batch_process_tickets: "idle", "gathering", "returned"
    running,     \* index of the task the event loop is executing, 0 when none
    pc,          \* position of each task's process_ticket
    clock,       \* what datetime.now() returns
    start_time,  \* process_ticket's local start_time, per task
    payload,     \* analyze_ticket's local analysis_result, per task
    analysis,    \* process_ticket's local analysis, per task
    prompt,      \* the context as serialized into the generation prompt, per task
    response,    \* process_ticket's local response, per task
    stamp,       \* the first of the two clock readings a return makes, per task
    context,     \* TicketProcessor.context, shared by all tasks
    calls,       \* how often each external call was made, per task
    raised,      \* the exception an agent raised inside the task, per task
    results,     \* what each task finished with
    returned,    \* what batch_process_tickets returned
    stats,       \* what the last get_processing_stats call returned
    heard,       \* the last answer of each external service, where it is logged
    shown        \* what the caller of process_ticket did with each resolution

vars == <<tickets, batchPc, running, pc, clock, start_time, payload, analysis,
          prompt, response, stamp, context, calls, raised, results, returned,
          stats, heard, shown>>

---------------------------------------------------------------------------
\* Values

\* Python's None.
None == [type |-> "NoneType"]

\* A Python str.
Text(s) == [type |-> "str", text |-> s]

\* class TicketCategory(Enum): the values.
TicketCategoryValues == {"technical", "billing", "feature", "access"}

\* class Priority(Enum): the values.
PriorityValues == {1, 2, 3, 4}

\* An exception object: its class and its argument (the pieces of its text).
Exc(type, arg) == [type |-> type, arg |-> arg]

\* str(e).  KeyError shows the repr of the missing key, the other classes
\* show their message.
Str(e) ==
    IF e.type = "KeyError" THEN Text(<<"'">> \o e.arg \o <<"'">>) ELSE Text(e.arg)

\* A value a function returned, or the exception it raised.
Ok(v) == [ok |-> TRUE, val |-> v]
Raise(e) == [ok |-> FALSE, exc |-> e]

\* SupportTicket number i of the batch, after the sample tickets of main.py.
SupportTicket(i) ==
    [id |-> <<"TKT", i>>,
     customer_info |-> IF i % 2 = 1
                       THEN [role |-> "Finance Director", plan |-> "Enterprise",
                             company_size |-> "250+"]
                       ELSE [role |-> "Billing Admin", plan |-> "Professional",
                             company_size |-> "50-249"]]

Tasks == 1..Len(tickets)

---------------------------------------------------------------------------
\* What the external services can answer

\* A chat-completion answer carrying one tool call whose arguments are the
\* JSON text of the object `value`.
ToolCall(value) == [kind |-> "tool_call", json |-> TRUE, value |-> value]

\* A chat-completion answer carrying one tool call whose arguments are not JSON.
ToolCallGarbled == [kind |-> "tool_call", json |-> FALSE]

\* A chat-completion answer without tool calls (message.tool_calls is None).
NoToolCall == [kind |-> "no_tool_call"]

\* The call itself raises (network, authentication, rate limit, server error).
CallRaises == [kind |-> "raise", exc |-> Exc("APIConnectionError", <<"Connection error.">>)]

\* Extraction results that follow the declared schema.
AccessUrgent ==
    [category |-> "access", priority |-> 4,
     key_points |-> <<"403 on admin dashboard">>,
     required_expertise |-> <<"access management">>,
     urgency_indicators |-> <<"ASAP">>,
     business_impact |-> "payroll blocked",
     suggested_response_type |-> "access_issue"]

BillingMedium ==
    [category |-> "billing", priority |-> 2,
     key_points |-> <<"pro-rating question">>,
     required_expertise |-> <<"billing">>,
     urgency_indicators |-> <<>>,
     business_impact |-> "none",
     suggested_response_type |-> "billing_inquiry"]

\* r without its field k.
Without(r, k) == [f \in DOMAIN r \ {k} |-> r[f]]

\* Extraction results that do not follow the schema.
MissingCategory == Without(AccessUrgent, "category")
UnknownCategory == [AccessUrgent EXCEPT !.category = "other"]
UnknownPriority == [BillingMedium EXCEPT !.priority = 5]

\* Every answer of the structured-extraction call.
ExtractionAnswers ==
    {CallRaises, NoToolCall, ToolCallGarbled}
    \cup {ToolCall(v) : v \in {AccessUrgent, BillingMedium, MissingCategory,
                               UnknownCategory, UnknownPriority}}

\* Generation results: one that follows the schema, one that lacks a field.
DraftReply ==
    [response_text |-> "draft", confidence_score |-> 1,
     requires_approval |-> TRUE, suggested_actions |-> <<"follow up">>]

MissingConfidence == Without(DraftReply, "confidence_score")

\* Every answer of the structured-generation call.
GenerationAnswers ==
    {CallRaises, NoToolCall, ToolCallGarbled}
    \cup {ToolCall(v) : v \in {DraftReply, MissingConfidence}}

\* The keys the extraction schema requires, and those of the generation
\* schema.
ExtractionRequired ==
    {"category", "priority", "key_points", "required_expertise",
     "urgency_indicators", "business_impact", "suggested_response_type"}

GenerationRequired ==
    {"response_text", "confidence_score", "requires_approval", "suggested_actions"}

\* An extraction result with a property the schema does not declare, and one
\* whose key_points are numbers where the schema declares strings.
ExtraField == AccessUrgent @@ [notes |-> "escalate to tier 2"]
WrongItemType == [AccessUrgent EXCEPT !.key_points = <<403, 500>>]

\* Every answer of the structured-extraction call, with every way its result
\* can leave the schema: each required key missing in turn, an enum value
\* outside the enum, an undeclared property, a wrongly typed property.
AnyExtractionAnswer ==
    ExtractionAnswers
    \cup {ToolCall(Without(AccessUrgent, k)) : k \in ExtractionRequired}
    \cup {ToolCall(ExtraField), ToolCall(WrongItemType)}

\* Generation results whose confidence_score is above 1 and below 0.  Like a
\* similarity score, a confidence c stands for c / MaxScore.
OverConfident == [DraftReply EXCEPT !.confidence_score = MaxScore + 1]
NegativeConfidence == [DraftReply EXCEPT !.confidence_score = -1]

\* A generation result that asks for no approval.
Unapproved == [DraftReply EXCEPT !.requires_approval = FALSE]

\* Every answer of the structured-generation call, with each required key
\* missing in turn, with the confidence outside [0, 1], and with either value
\* of requires_approval.
AnyGenerationAnswer ==
    GenerationAnswers
    \cup {ToolCall(Without(DraftReply, k)) : k \in GenerationRequired}
    \cup {ToolCall(OverConfident), ToolCall(NegativeConfidence), ToolCall(Unapproved)}

\* Similarity scores, in units of 1 / MaxScore.
Scores == -MaxScore..MaxScore

\* Every answer of the similarity call: it raises, its body is not JSON, its
\* body is a JSON object (the service's error report), or a JSON list: of
\* zero, one or two scores (list), of two strings (strings), or of two of
\* the JSON literals true and false (flags).
SimilarityAnswers ==
    {[kind |-> "raise", exc |-> Exc("HfHubHTTPError", <<"503 Service Unavailable">>)],
     [kind |-> "body", json |-> "garbled"],
     [kind |-> "body", json |-> "object"],
     [kind |-> "body", json |-> "list", list |-> <<>>],
     [kind |-> "body", json |-> "list", strings |-> <<"0.9", "0.1">>]}
    \cup {[kind |-> "body", json |-> "list", list |-> <<p>>] : p \in Scores}
    \cup {[kind |-> "body", json |-> "list", list |-> <<p, n>>] : p, n \in Scores}
    \cup {[kind |-> "body", json |-> "list", flags |-> <<p, n>>] : p, n \in BOOLEAN}

---------------------------------------------------------------------------
\* TicketAnalysisAgent and ResponseAgent

\* d[k] of a dict.
Lookup(d, k) == IF k \in DOMAIN d THEN Ok(d[k]) ELSE Raise(Exc("KeyError", <<k>>))

\* response.choices[0].message.tool_calls[0], then json.loads of its arguments.
ParseArguments(answer) ==
    CASE answer.kind = "no_tool_call" ->
            Raise(Exc("TypeError", <<"'NoneType' object is not subscriptable">>))
      [] answer.kind = "tool_call" /\ ~answer.json ->
            Raise(Exc("JSONDecodeError", <<"Expecting value: line 1 column 1 (char 0)">>))
      [] OTHER -> Ok(answer.value)

\* TicketCategory(v): the member with that value.
TicketCategory(v) ==
    IF v \in TicketCategoryValues
    THEN Ok([value |-> v])
    ELSE Raise(Exc("ValueError", <<"'", v, "' is not a valid TicketCategory">>))

\* Priority(v): the member with that value.
Priority(v) ==
    IF v \in PriorityValues
    THEN Ok([value |-> v])
    ELSE Raise(Exc("ValueError", <<ToString(v), " is not a valid Priority">>))

\* The keys analyze_ticket reads after category and priority, in the order
\* the constructor call reads them.
AnalysisKeys ==
    <<"key_points", "required_expertise", "urgency_indicators",
      "business_impact", "suggested_response_type">>

\* The first key of `keys` that d lacks, 0 when it has them all.
FirstMissing(d, keys) ==
    LET missing == {i \in 1..Len(keys) : keys[i] \notin DOMAIN d}
    IN  IF missing = {} THEN 0
        ELSE CHOOSE i \in missing : \A j \in missing : i <= j

\* A Python bool in arithmetic: True is 1 and False is 0.
BoolAsNumber(b) == IF b THEN MaxScore ELSE 0

\* An _analyze_sentiment that subtracts the other way round: negative
\* similarity minus positive similarity.
AnalyzeSentimentReversed(answer) ==
    IF answer.kind = "raise" THEN 0
    ELSE IF answer.json # "list" THEN 0
    ELSE IF "strings" \in DOMAIN answer THEN 0
    ELSE IF "flags" \in DOMAIN answer
    THEN BoolAsNumber(answer.flags[2]) - BoolAsNumber(answer.flags[1])
    ELSE IF Len(answer.list) < 2 THEN 0
    ELSE answer.list[2] - answer.list[1]

\* _analyze_sentiment: positive similarity minus negative similarity, and
\* 0.0 when anything in the try block raised.  The subtraction raises
\* TypeError for strings; for bools it is integer arithmetic.
AnalyzeSentiment(answer) ==
    IF answer.kind = "raise" THEN 0
    ELSE IF answer.json # "list" THEN 0
    ELSE IF "strings" \in DOMAIN answer THEN 0
    ELSE IF "flags" \in DOMAIN answer
    THEN BoolAsNumber(answer.flags[1]) - BoolAsNumber(answer.flags[2])
    ELSE IF Len(answer.list) < 2 THEN 0
    ELSE answer.list[1] - answer.list[2]

\* A construction that reads the list and text fields with a default, as
\* dict.get does, instead of subscripting.
MakeTicketAnalysisDefaulting(analysis_result, sentiment) ==
    LET category == Lookup(analysis_result, "category")
        priority == Lookup(analysis_result, "priority")
        Get(k)   == IF k \in DOMAIN analysis_result THEN analysis_result[k] ELSE None
    IN  IF ~category.ok THEN category
        ELSE IF ~TicketCategory(category.val).ok THEN TicketCategory(category.val)
        ELSE IF ~priority.ok THEN priority
        ELSE IF ~Priority(priority.val).ok THEN Priority(priority.val)
        ELSE Ok([category |-> TicketCategory(category.val).val,
                 priority |-> Priority(priority.val).val,
                 key_points |-> Get("key_points"),
                 required_expertise |-> Get("required_expertise"),
                 sentiment |-> sentiment,
                 urgency_indicators |-> Get("urgency_indicators"),
                 business_impact |-> Get("business_impact"),
                 suggested_response_type |-> Get("suggested_response_type")])

\* The TicketAnalysis(...) construction that ends analyze_ticket.
MakeTicketAnalysis(analysis_result, sentiment) ==
    LET category == Lookup(analysis_result, "category")
        priority == Lookup(analysis_result, "priority")
        missing  == FirstMissing(analysis_result, AnalysisKeys)
    IN  IF ~category.ok THEN category
        ELSE IF ~TicketCategory(category.val).ok THEN TicketCategory(category.val)
        ELSE IF ~priority.ok THEN priority
        ELSE IF ~Priority(priority.val).ok THEN Priority(priority.val)
        ELSE IF missing # 0 THEN Lookup(analysis_result, AnalysisKeys[missing])
        ELSE Ok([category |-> TicketCategory(category.val).val,
                 priority |-> Priority(priority.val).val,
                 key_points |-> analysis_result.key_points,
                 required_expertise |-> analysis_result.required_expertise,
                 sentiment |-> sentiment,
                 urgency_indicators |-> analysis_result.urgency_indicators,
                 business_impact |-> analysis_result.business_impact,
                 suggested_response_type |-> analysis_result.suggested_response_type])

\* The keys generate_response reads, in order.
ResponseKeys ==
    <<"response_text", "confidence_score", "requires_approval", "suggested_actions">>

\* A construction that sets requires_approval itself instead of taking it
\* from the generation result.
MakeResponseSuggestionApproving(response_result) ==
    LET missing == FirstMissing(response_result, ResponseKeys)
    IN  IF missing # 0 THEN Lookup(response_result, ResponseKeys[missing])
        ELSE Ok([response_text |-> response_result.response_text,
                 confidence_score |-> response_result.confidence_score,
                 requires_approval |-> TRUE,
                 suggested_actions |-> response_result.suggested_actions])

\* The ResponseSuggestion(...) construction that ends generate_response.
MakeResponseSuggestion(response_result) ==
    LET missing == FirstMissing(response_result, ResponseKeys)
    IN  IF missing # 0 THEN Lookup(response_result, ResponseKeys[missing])
        ELSE Ok([response_text |-> response_result.response_text,
                 confidence_score |-> response_result.confidence_score,
                 requires_approval |-> response_result.requires_approval,
                 suggested_actions |-> response_result.suggested_actions])

\* The keys of the shared context, in the order the dict holds them.
ContextKeys ==
    <<"ticket_id", "analysis_timestamp", "category", "priority", "customer_info">>

\* json.dumps(context): the members of the dict, one after the other, as text.
JsonDumps(ctx) ==
    LET present == SelectSeq(ContextKeys, LAMBDA k : k \in DOMAIN ctx)
    IN  [i \in 1..Len(present) |-> <<present[i], ctx[present[i]]>>]

\* The keys json.dumps wrote into the text `dumped`.
DumpedKeys(dumped) == {dumped[i][1] : i \in DOMAIN dumped}

\* The value json.dumps wrote for key k into the text `dumped`.
Dumped(dumped, k) == dumped[CHOOSE i \in DOMAIN dumped : dumped[i][1] = k][2]

\* Whether an external call hands the event loop to other tasks while it is
\* outstanding.  All three calls go through synchronous clients and are not
\* awaited, so none does.
Yields(call) == FALSE

---------------------------------------------------------------------------
\* TicketProcessor

\* datetime.isoformat().
Isoformat(t) == [type |-> "str", iso |-> t]

\* dict.update: the keys of `new` are set, the other keys stay.
Update(ctx, new) ==
    [k \in DOMAIN ctx \cup DOMAIN new |-> IF k \in DOMAIN new THEN new[k] ELSE ctx[k]]

\* A merge that keeps the values the context already has.
ContextKeepsFirst(ctx, ticket, ticket_analysis, now) ==
    Update([ticket_id |-> ticket.id,
            analysis_timestamp |-> Isoformat(now),
            category |-> ticket_analysis.category.value,
            priority |-> ticket_analysis.priority.value,
            customer_info |-> ticket.customer_info],
           ctx)

\* A merge that leaves customer_info out of what it writes.
ContextWithoutCustomerInfo(ctx, ticket, ticket_analysis, now) ==
    Update(ctx, [ticket_id |-> ticket.id,
                 analysis_timestamp |-> Isoformat(now),
                 category |-> ticket_analysis.category.value,
                 priority |-> ticket_analysis.priority.value])

\* Step 2 of process_ticket: the context after self.context.update({...}).
ContextUpdate(ctx, ticket, ticket_analysis, now) ==
    Update(ctx, [ticket_id |-> ticket.id,
                 analysis_timestamp |-> Isoformat(now),
                 category |-> ticket_analysis.category.value,
                 priority |-> ticket_analysis.priority.value,
                 customer_info |-> ticket.customer_info])

\* Step 6 of process_ticket: the resolution of the success path.
CompletedResolution(ticket, ticket_analysis, ticket_response, processed_at, processing_time) ==
    [class |-> "TicketResolution",
     ticket_id |-> ticket.id,
     analysis |-> ticket_analysis,
     response |-> ticket_response,
     processed_at |-> processed_at,
     processing_time |-> processing_time,
     status |-> "completed",
     error |-> None]

\* An error resolution that leaves `error` at its default.
ErrorResolutionWithoutMessage(ticket, e, processed_at, processing_time) ==
    [class |-> "TicketResolution",
     ticket_id |-> ticket.id,
     analysis |-> None,
     response |-> None,
     processed_at |-> processed_at,
     processing_time |-> processing_time,
     status |-> "error",
     error |-> None]

\* The resolution built by the except branch of process_ticket.
ErrorResolution(ticket, e, processed_at, processing_time) ==
    [class |-> "TicketResolution",
     ticket_id |-> ticket.id,
     analysis |-> None,
     response |-> None,
     processed_at |-> processed_at,
     processing_time |-> processing_time,
     status |-> "error",
     error |-> Str(e)]

\* The exception classes raised inside the try block; all derive from Exception.
ExceptionClasses ==
    {"APIConnectionError", "TypeError", "JSONDecodeError", "KeyError", "ValueError"}

\* A handler that takes the service's errors only.
HandledServiceErrors(e) == e.type = "APIConnectionError"

\* `except Exception as e`: whether the handler of process_ticket takes e.
Handled(e) == e.type \in ExceptionClasses

\* A handler that logs the error and raises it again.
OutcomeReraised(ticket, e, processed_at, processing_time) == [class |-> "Exception", exc |-> e]

\* What the task of process_ticket ends with when e is raised in its try block.
Outcome(ticket, e, processed_at, processing_time) ==
    IF Handled(e)
    THEN ErrorResolution(ticket, e, processed_at, processing_time)
    ELSE [class |-> "Exception", exc |-> e]

\* A gather that is done as soon as one task has ended in an error.
GatherDoneAtFirstError(positions, task_results) ==
    \/ \A t \in DOMAIN positions : positions[t] = "done"
    \/ \E t \in DOMAIN positions :
          /\ positions[t] = "done"
          /\ task_results[t].class = "TicketResolution"
          /\ task_results[t].status = "error"

\* When the future of asyncio.gather(*tasks, return_exceptions=True) is set:
\* once every task has ended, however it ended.
GatherDone(positions, task_results) ==
    \A t \in DOMAIN positions : positions[t] = "done"

\* A gather that hands the results back last task first.
GatherReversed(task_results) ==
    [class |-> "list",
     items |-> [i \in DOMAIN task_results |-> task_results[Len(task_results) + 1 - i]]]

\* The result of asyncio.gather(*tasks, return_exceptions=True): the tasks'
\* results in the order of the tasks, a task's exception standing in for its
\* result.
Gather(task_results) ==
    [class |-> "list", items |-> [i \in DOMAIN task_results |-> task_results[i]]]

\* No answer of any service logged yet.
NothingHeard == [extraction |-> None, similarity |-> None, generation |-> None]

\* len(text), of a text the model holds by its pieces.
LenOf(text) == [type |-> "int", len_of |-> text]

\* The keys of the mapping get_processing_stats returns.
StatsKeys == {"total_processed", "last_processed", "context_size"}

\* A get_processing_stats that subscripts the context where the code calls
\* get.
GetProcessingStatsSubscript(ctx) ==
    IF ~Lookup(ctx, "analysis_timestamp").ok
    THEN Lookup(ctx, "analysis_timestamp").exc
    ELSE [total_processed |-> Cardinality(DOMAIN ctx),
          last_processed |-> ctx.analysis_timestamp,
          context_size |-> LenOf(JsonDumps(ctx))]

\* A get_processing_stats whose total_processed counts the tickets the
\* context holds instead of its entries.
GetProcessingStatsPerTicket(ctx) ==
    [total_processed |-> Cardinality(DOMAIN ctx \cap {"ticket_id"}),
     last_processed |-> IF "analysis_timestamp" \in DOMAIN ctx
                        THEN ctx.analysis_timestamp ELSE None,
     context_size |-> LenOf(JsonDumps(ctx))]

\* get_processing_stats.
GetProcessingStats(ctx) ==
    [total_processed |-> Cardinality(DOMAIN ctx),
     last_processed |-> IF "analysis_timestamp" \in DOMAIN ctx
                        THEN ctx.analysis_timestamp ELSE None,
     context_size |-> LenOf(JsonDumps(ctx))]

\* obj.attr: AttributeError when obj is None.
Attribute(obj, attr) ==
    IF obj = None
    THEN Raise(Exc("AttributeError",
                   <<"'NoneType' object has no attribute '", attr, "'">>))
    ELSE Ok(obj[attr])

\* What a caller did with a resolution: which of analysis, response and
\* error it read, and the exception that ended it, None when none did.
Shown(caller, read, e) == [caller |-> caller, read |-> read, raised |-> e]

\* The body of main's loop after process_ticket returned:
\* save_resolution_to_file and the prints, which both branch on status.
MainLoopBody(resolution) ==
    IF resolution.status = "completed"
    THEN LET category == Attribute(resolution.analysis, "category")
             text     == Attribute(resolution.response, "response_text")
         IN  IF ~category.ok THEN Shown("main", {"analysis"}, category.exc)
             ELSE IF ~text.ok THEN Shown("main", {"analysis", "response"}, text.exc)
             ELSE Shown("main", {"analysis", "response"}, None)
    ELSE Shown("main", {"error"}, None)

\* The submit handler of the Streamlit page after process_ticket returned:
\* the three tabs, filled from analysis and response whatever the status.
SubmitHandler(resolution) ==
    LET category   == Attribute(resolution.analysis, "category")
        confidence == Attribute(resolution.response, "confidence_score")
    IN  IF ~category.ok THEN Shown("app", {"analysis"}, category.exc)
        ELSE IF ~confidence.ok
        THEN Shown("app", {"analysis", "response"}, confidence.exc)
        ELSE Shown("app", {"analysis", "response"}, None)

\* The external calls of one process_ticket.
NoCalls == [extraction |-> 0, similarity |-> 0, generation |-> 0]

---------------------------------------------------------------------------
\* The state machine

Init ==
    /\ \E n \in 0..MaxTickets : tickets = [i \in 1..n |-> SupportTicket(i)]
    /\ batchPc = "idle"
    /\ running = 0
    /\ pc = [t \in Tasks |-> "unborn"]
    /\ clock = 0
    /\ start_time = [t \in Tasks |-> 0]
    /\ payload = [t \in Tasks |-> None]
    /\ analysis = [t \in Tasks |-> None]
    /\ prompt = [t \in Tasks |-> None]
    /\ response = [t \in Tasks |-> None]
    /\ stamp = [t \in Tasks |-> 0]
    /\ context = [k \in {} |-> None]
    /\ calls = [t \in Tasks |-> NoCalls]
    /\ raised = [t \in Tasks |-> None]
    /\ results = [t \in Tasks |-> None]
    /\ returned = None
    /\ stats = None
    /\ heard = NothingHeard
    /\ shown = [t \in Tasks |-> None]

\* batch_process_tickets up to the await: one coroutine per ticket, each
\* wrapped in a task by gather; the batch then waits for all of them.
BatchStart ==
    /\ batchPc = "idle"
    /\ batchPc' = "gathering"
    /\ pc' = [t \in Tasks |-> "pending"]
    /\ UNCHANGED <<shown, stats, heard, response, stamp, tickets, running, clock, start_time, payload, analysis, prompt,
                   context, calls, raised, results, returned>>

\* The loop runs the next ready task: process_ticket takes start_time.
\* Tasks become ready in creation order and the loop is free only when no
\* task is executing.
TaskStart(t) ==
    /\ batchPc = "gathering"
    /\ running = 0
    /\ pc[t] = "pending"
    /\ \A u \in Tasks : u < t => pc[u] # "pending"
    /\ running' = t
    /\ start_time' = [start_time EXCEPT ![t] = clock]
    /\ pc' = [pc EXCEPT ![t] = "started"]
    /\ UNCHANGED <<shown, stats, heard, response, stamp, tickets, batchPc, clock, payload, analysis, prompt, context,
                   calls, raised, results, returned>>

\* A return after which the event loop is not given back.
LeaveHoldingLoop(t) ==
    /\ pc' = [pc EXCEPT ![t] = "done"]
    /\ running' = t
    /\ payload' = [payload EXCEPT ![t] = None]
    /\ analysis' = [analysis EXCEPT ![t] = None]
    /\ prompt' = [prompt EXCEPT ![t] = None]
    /\ response' = [response EXCEPT ![t] = None]
    /\ stamp' = [stamp EXCEPT ![t] = 0]

\* process_ticket returns or raises: its frame and those of the agents' calls
\* are gone, and the loop is free for the next task.
Leave(t) ==
    /\ pc' = [pc EXCEPT ![t] = "done"]
    /\ running' = 0
    /\ payload' = [payload EXCEPT ![t] = None]
    /\ analysis' = [analysis EXCEPT ![t] = None]
    /\ prompt' = [prompt EXCEPT ![t] = None]
    /\ response' = [response EXCEPT ![t] = None]
    /\ stamp' = [stamp EXCEPT ![t] = 0]

\* A handler that starts the ticket over instead of reporting the error.
FailRetries(t, step, e) ==
    /\ pc' = [pc EXCEPT ![t] = "started"]
    /\ running' = t
    /\ UNCHANGED <<raised, results, payload, analysis, prompt, response, stamp>>

\* The agent call `step` raises e inside the try block of process_ticket.
\* The handler takes it and reads the clock for processed_at; an exception
\* the handler does not take leaves process_ticket.
Fail(t, step, e) ==
    /\ raised' = [raised EXCEPT ![t] = [step |-> step, exc |-> e]]
    /\ IF Handled(e)
       THEN /\ pc' = [pc EXCEPT ![t] = "handling"]
            /\ running' = t
            /\ stamp' = [stamp EXCEPT ![t] = clock]
            /\ payload' = [payload EXCEPT ![t] = None]
            /\ analysis' = [analysis EXCEPT ![t] = None]
            /\ prompt' = [prompt EXCEPT ![t] = None]
            /\ UNCHANGED <<response, results>>
       ELSE /\ results' = [results EXCEPT ![t] =
                   Outcome(tickets[t], e, clock, clock - start_time[t])]
            /\ Leave(t)

\* An except branch that undoes the merge of the ticket it reports.
HandleErrorRollingBack(t) ==
    /\ running = t
    /\ pc[t] = "handling"
    /\ results' = [results EXCEPT ![t] =
           Outcome(tickets[t], raised[t].exc, stamp[t], clock - start_time[t])]
    /\ context' = IF raised[t].step = "generate_response"
                  THEN [k \in {} |-> None] ELSE context
    /\ Leave(t)
    /\ UNCHANGED <<shown, stats, heard, tickets, batchPc, clock, start_time, calls,
                   raised, returned>>

\* The except branch, second half: the clock is read again for
\* processing_time and the error resolution is returned.
HandleError(t) ==
    /\ running = t
    /\ pc[t] = "handling"
    /\ results' = [results EXCEPT ![t] =
           Outcome(tickets[t], raised[t].exc, stamp[t], clock - start_time[t])]
    /\ Leave(t)
    /\ UNCHANGED <<shown, stats, heard, tickets, batchPc, clock, start_time, context, calls,
                   raised, returned>>

\* Step 1: analyze_ticket builds its messages and makes the extraction call.
CallExtraction(t) ==
    /\ running = t
    /\ pc[t] = "started"
    /\ pc' = [pc EXCEPT ![t] = "extraction_call"]
    /\ calls' = [calls EXCEPT ![t].extraction = @ + 1]
    /\ running' = IF Yields("extraction") THEN 0 ELSE t
    /\ UNCHANGED <<shown, stats, heard, response, stamp, tickets, batchPc, clock, start_time, payload, analysis, prompt,
                   context, raised, results, returned>>

\* An analyze_ticket that constructs its TicketAnalysis from the extraction
\* result with the neutral sentiment, without the similarity call.
ExtractionAnsweredWithoutSentiment(t, answer) ==
    /\ running = IF Yields("extraction") THEN 0 ELSE t
    /\ pc[t] = "extraction_call"
    /\ IF answer.kind = "raise"
       THEN /\ Fail(t, "analyze_ticket", answer.exc)
       ELSE IF ~ParseArguments(answer).ok
       THEN /\ Fail(t, "analyze_ticket", ParseArguments(answer).exc)
       ELSE LET made == MakeTicketAnalysis(ParseArguments(answer).val, 0)
            IN  IF ~made.ok
                THEN Fail(t, "analyze_ticket", made.exc)
                ELSE /\ analysis' = [analysis EXCEPT ![t] = made.val]
                     /\ pc' = [pc EXCEPT ![t] = "analyzed"]
                     /\ running' = t
                     /\ UNCHANGED <<payload, prompt, response, stamp, raised, results>>
    /\ UNCHANGED <<shown, stats, tickets, batchPc, clock, start_time, context, calls, returned>>

\* The extraction call ends.  If it raised, or its answer cannot be parsed,
\* the exception leaves analyze_ticket; otherwise analysis_result is set and
\* _analyze_sentiment makes the similarity call.
ExtractionAnswered(t, answer) ==
    /\ running = IF Yields("extraction") THEN 0 ELSE t
    /\ pc[t] = "extraction_call"
    /\ IF answer.kind = "raise"
       THEN /\ Fail(t, "analyze_ticket", answer.exc)
            /\ UNCHANGED calls
       ELSE IF ~ParseArguments(answer).ok
       THEN /\ Fail(t, "analyze_ticket", ParseArguments(answer).exc)
            /\ UNCHANGED calls
       ELSE /\ payload' = [payload EXCEPT ![t] = ParseArguments(answer).val]
            /\ calls' = [calls EXCEPT ![t].similarity = @ + 1]
            /\ pc' = [pc EXCEPT ![t] = "similarity_call"]
            /\ running' = IF Yields("similarity") THEN 0 ELSE t
            /\ UNCHANGED <<analysis, prompt, response, stamp, raised, results>>
    /\ UNCHANGED <<shown, stats, tickets, batchPc, clock, start_time, context, returned>>

ExtractionReturns(t) ==
    /\ \E answer \in ExtractionAnswers : ExtractionAnswered(t, answer)
    /\ UNCHANGED heard

\* The similarity call ends, _analyze_sentiment returns, and analyze_ticket
\* constructs the TicketAnalysis and returns it, or raises doing so.
SimilarityAnswered(t, answer) ==
    /\ running = IF Yields("similarity") THEN 0 ELSE t
    /\ pc[t] = "similarity_call"
    /\ LET made == MakeTicketAnalysis(payload[t], AnalyzeSentiment(answer))
       IN  IF ~made.ok
           THEN Fail(t, "analyze_ticket", made.exc)
           ELSE /\ analysis' = [analysis EXCEPT ![t] = made.val]
                /\ payload' = [payload EXCEPT ![t] = None]
                /\ pc' = [pc EXCEPT ![t] = "analyzed"]
                /\ running' = t
                /\ UNCHANGED <<prompt, response, stamp, raised, results>>
    /\ UNCHANGED <<shown, stats, tickets, batchPc, clock, start_time, context, calls, returned>>

SimilarityReturns(t) ==
    /\ \E answer \in SimilarityAnswers : SimilarityAnswered(t, answer)
    /\ UNCHANGED heard

\* A process_ticket that goes on to the response without the merge.
UpdateContextSkipped(t) ==
    /\ running = t
    /\ pc[t] = "analyzed"
    /\ pc' = [pc EXCEPT ![t] = "context_updated"]
    /\ UNCHANGED <<shown, stats, heard, response, stamp, tickets, batchPc, running, clock, start_time, payload, analysis,
                   prompt, context, calls, raised, results, returned>>

\* Step 2: the analysis is merged into the shared context.
UpdateContext(t) ==
    /\ running = t
    /\ pc[t] = "analyzed"
    /\ context' = ContextUpdate(context, tickets[t], analysis[t], clock)
    /\ pc' = [pc EXCEPT ![t] = "context_updated"]
    /\ UNCHANGED <<shown, stats, heard, response, stamp, tickets, batchPc, running, clock, start_time, payload, analysis,
                   prompt, calls, raised, results, returned>>

\* A generate_response that empties the context it was handed before
\* making the generation call.
CallGenerationClearingContext(t) ==
    /\ running = t
    /\ pc[t] = "context_updated"
    /\ prompt' = [prompt EXCEPT ![t] = [analysis |-> analysis[t],
                                        context |-> JsonDumps(context)]]
    /\ context' = [k \in {} |-> None]
    /\ calls' = [calls EXCEPT ![t].generation = @ + 1]
    /\ pc' = [pc EXCEPT ![t] = "generation_call"]
    /\ running' = IF Yields("generation") THEN 0 ELSE t
    /\ UNCHANGED <<shown, stats, heard, response, stamp, tickets, batchPc, clock, start_time,
                   payload, analysis, raised, results, returned>>

\* Steps 3 and 4, first half: the templates are loaded, generate_response
\* builds its messages from the analysis and the shared context, and makes
\* the generation call.
CallGeneration(t) ==
    /\ running = t
    /\ pc[t] = "context_updated"
    /\ prompt' = [prompt EXCEPT ![t] = [analysis |-> analysis[t],
                                        context |-> JsonDumps(context)]]
    /\ calls' = [calls EXCEPT ![t].generation = @ + 1]
    /\ pc' = [pc EXCEPT ![t] = "generation_call"]
    /\ running' = IF Yields("generation") THEN 0 ELSE t
    /\ UNCHANGED <<shown, stats, heard, response, stamp, tickets, batchPc, clock, start_time, payload, analysis, context,
                   raised, results, returned>>

\* Step 4, second half, and step 5: the generation call ends; the
\* ResponseSuggestion is built and the clock is read for processing_time, or
\* the exception is handled.
GenerationAnswered(t, answer) ==
    /\ running = IF Yields("generation") THEN 0 ELSE t
    /\ pc[t] = "generation_call"
    /\ LET parsed == ParseArguments(answer)
           made   == MakeResponseSuggestion(parsed.val)
       IN  IF answer.kind = "raise" THEN Fail(t, "generate_response", answer.exc)
           ELSE IF ~parsed.ok THEN Fail(t, "generate_response", parsed.exc)
           ELSE IF ~made.ok THEN Fail(t, "generate_response", made.exc)
           ELSE /\ response' = [response EXCEPT ![t] = made.val]
                /\ stamp' = [stamp EXCEPT ![t] = clock]
                /\ prompt' = [prompt EXCEPT ![t] = None]
                /\ pc' = [pc EXCEPT ![t] = "timed"]
                /\ running' = t
                /\ UNCHANGED <<payload, analysis, raised, results>>
    /\ UNCHANGED <<shown, stats, tickets, batchPc, clock, start_time, context, calls, returned>>

GenerationReturns(t) ==
    /\ \E answer \in GenerationAnswers : GenerationAnswered(t, answer)
    /\ UNCHANGED heard

\* Step 6: the clock is read again for processed_at and the completed
\* resolution is returned; its processing_time is the one step 5 computed.
Complete(t) ==
    /\ running = t
    /\ pc[t] = "timed"
    /\ results' = [results EXCEPT ![t] =
           CompletedResolution(tickets[t], analysis[t], response[t], clock,
                               stamp[t] - start_time[t])]
    /\ Leave(t)
    /\ UNCHANGED <<shown, stats, heard, tickets, batchPc, clock, start_time, context, calls,
                   raised, returned>>

\* Every task has ended: gather's future is set and batch_process_tickets
\* returns its result.
BatchReturn ==
    /\ batchPc = "gathering"
    /\ running = 0
    /\ GatherDone(pc, results)
    /\ returned' = Gather(results)
    /\ batchPc' = "returned"
    /\ UNCHANGED <<shown, stats, heard, response, stamp, tickets, running, pc, clock, start_time, payload, analysis,
                   prompt, context, calls, raised, results>>

Next ==
    \/ BatchStart
    \/ \E t \in Tasks : TaskStart(t)
    \/ \E t \in Tasks : CallExtraction(t)
    \/ \E t \in Tasks : ExtractionReturns(t)
    \/ \E t \in Tasks : SimilarityReturns(t)
    \/ \E t \in Tasks : UpdateContext(t)
    \/ \E t \in Tasks : CallGeneration(t)
    \/ \E t \in Tasks : GenerationReturns(t)
    \/ \E t \in Tasks : Complete(t)
    \/ \E t \in Tasks : HandleError(t)
    \/ BatchReturn

\* Spec: a batch of up to MaxTickets tickets, resolved within one reading of
\* the clock.
Spec == Init /\ [][Next]_vars

\* Time passes between two statements.
Tick ==
    /\ clock < MaxClock
    /\ clock' = clock + 1
    /\ UNCHANGED <<shown, stats, heard, response, stamp, tickets, batchPc, running, pc, start_time, payload, analysis,
                   prompt, context, calls, raised, results, returned>>

\* The local wall clock is set back between two statements: datetime.now()
\* reads the naive local time, which steps back at the end of daylight
\* saving time and whenever the system clock is corrected.
ClockSetBack ==
    /\ clock > 0
    /\ clock' = clock - 1
    /\ UNCHANGED <<shown, stats, heard, response, stamp, tickets, batchPc, running, pc, start_time, payload,
                   analysis, prompt, context, calls, raised, results, returned>>

InitTimed == Init /\ Len(tickets) <= 1

NextTimed == Next \/ Tick \/ ClockSetBack

\* SpecTimed: a batch of at most one ticket, with the clock changing at any
\* point of its resolution.
SpecTimed == InitTimed /\ [][NextTimed]_vars

\* get_processing_stats is called, by whoever holds the processor, at any
\* point of a batch.
GetStats ==
    /\ stats' = GetProcessingStats(context)
    /\ UNCHANGED <<shown, heard, response, stamp, tickets, batchPc, running, pc, clock, start_time, payload,
                   analysis, prompt, context, calls, raised, results, returned>>

NextStats == Next \/ GetStats

\* SpecStats: a batch of up to MaxTickets tickets during which the
\* statistics are read at any point.
SpecStats == Init /\ [][NextStats]_vars

\* SpecLive: a batch of up to MaxTickets tickets in which whatever can
\* happen next eventually does: the caller makes the batch call, the event
\* loop runs a ready task, a task that holds the loop executes its next
\* statement, and an outstanding external call returns or raises.
SpecLive == Init /\ [][Next]_vars /\ WF_vars(Next)

\* main's loop goes on with the resolution process_ticket returned.
MainReads(t) ==
    /\ pc[t] = "done"
    /\ running = 0
    /\ shown[t] = None
    /\ results[t].class = "TicketResolution"
    /\ shown' = [shown EXCEPT ![t] = MainLoopBody(results[t])]
    /\ UNCHANGED <<stats, heard, response, stamp, tickets, batchPc, running, pc, clock,
                   start_time, payload, analysis, prompt, context, calls, raised,
                   results, returned>>

\* The Streamlit page goes on with the resolution process_ticket returned.
SubmitReads(t) ==
    /\ pc[t] = "done"
    /\ running = 0
    /\ shown[t] = None
    /\ results[t].class = "TicketResolution"
    /\ shown' = [shown EXCEPT ![t] = SubmitHandler(results[t])]
    /\ UNCHANGED <<stats, heard, response, stamp, tickets, batchPc, running, pc, clock,
                   start_time, payload, analysis, prompt, context, calls, raised,
                   results, returned>>

NextCallers ==
    \/ Next
    \/ \E t \in Tasks : MainReads(t)
    \/ \E t \in Tasks : SubmitReads(t)

\* SpecCallers: tickets resolved and each resolution handed to one of the
\* two callers of the repository.  Both callers await process_ticket itself,
\* one ticket after the other; its steps are those a task of the batch takes.
SpecCallers == Init /\ [][NextCallers]_vars

\* The same three steps with the answer logged, and drawn from every answer
\* the service can give.
ExtractionHeard(t) ==
    \E answer \in AnyExtractionAnswer :
        /\ ExtractionAnswered(t, answer)
        /\ heard' = [heard EXCEPT !.extraction = answer]

SimilarityHeard(t) ==
    \E answer \in SimilarityAnswers :
        /\ SimilarityAnswered(t, answer)
        /\ heard' = [heard EXCEPT !.similarity = answer]

GenerationHeard(t) ==
    \E answer \in AnyGenerationAnswer :
        /\ GenerationAnswered(t, answer)
        /\ heard' = [heard EXCEPT !.generation = answer]

InitTicket == Init /\ Len(tickets) = 1

NextTicket ==
    \/ BatchStart
    \/ \E t \in Tasks : TaskStart(t)
    \/ \E t \in Tasks : CallExtraction(t)
    \/ \E t \in Tasks : ExtractionHeard(t)
    \/ \E t \in Tasks : SimilarityHeard(t)
    \/ \E t \in Tasks : UpdateContext(t)
    \/ \E t \in Tasks : CallGeneration(t)
    \/ \E t \in Tasks : GenerationHeard(t)
    \/ \E t \in Tasks : Complete(t)
    \/ \E t \in Tasks : HandleError(t)
    \/ BatchReturn

\* SpecTicket: one ticket resolved, with every answer of the three services
\* and a log of what each answered.
SpecTicket == InitTicket /\ [][NextTicket]_vars

---------------------------------------------------------------------------
\* Properties

\* Whether a task result is a TicketResolution with the given status.
IsResolution(r, status) ==
    /\ r # None
    /\ r.class = "TicketResolution"
    /\ r.status = status

\* The tasks in which an agent call raised, and those in which `step` did.
Raising == {t \in Tasks : raised[t] # None}
RaisingIn(step) == {t \in Raising : raised[t].step = step}

\* C1: process_ticket never raises to its caller.  Every ended process_ticket
\* ended by returning a TicketResolution, and when analyze_ticket or
\* generate_response raised an exception, the resolution has status "error",
\* the ticket's id, and the exception's message as its error.
C1_NeverRaises ==
    \A t \in Tasks :
        pc[t] = "done" =>
            /\ results[t].class = "TicketResolution"
            /\ t \in Raising =>
                  /\ results[t].status = "error"
                  /\ results[t].ticket_id = tickets[t].id
                  /\ results[t].error = Str(raised[t].exc)

\* C1 happens: one ticket's extraction result lacked its category, so that the
\* construction of the analysis raised KeyError, another ticket's generation
\* call raised, and both ended in an error resolution carrying the message.
C1_Witness ==
    \E t, u \in Tasks :
        /\ t \in RaisingIn("analyze_ticket")
        /\ raised[t].exc = Exc("KeyError", <<"category">>)
        /\ IsResolution(results[t], "error")
        /\ results[t].error = Text(<<"'", "category", "'">>)
        /\ u \in RaisingIn("generate_response")
        /\ raised[u].exc.type = "APIConnectionError"
        /\ IsResolution(results[u], "error")
        /\ results[u].error = Text(<<"Connection error.">>)

\* C2: every TicketResolution process_ticket returned is either completed with
\* analysis and response present and no error, or an error with analysis and
\* response absent and the error present; when the analysis succeeded and the
\* response generation raised, the analysis is absent from the resolution.
C2_ResolutionShape ==
    \A t \in Tasks :
        (pc[t] = "done" /\ results[t].class = "TicketResolution") =>
            LET r == results[t]
            IN  /\ r.status \in {"completed", "error"}
                /\ \/ /\ r.status = "completed"
                      /\ r.analysis # None
                      /\ r.response # None
                      /\ r.error = None
                   \/ /\ r.status = "error"
                      /\ r.analysis = None
                      /\ r.response = None
                      /\ r.error # None
                /\ t \in RaisingIn("generate_response") => r.analysis = None

\* C2 happens: a batch holds a completed resolution and the resolution of a
\* ticket whose analysis succeeded and whose response generation raised.
C2_Witness ==
    \E t, u \in Tasks :
        /\ IsResolution(results[t], "completed")
        /\ results[t].analysis.sentiment # 0
        /\ u \in RaisingIn("generate_response")
        /\ calls[u].similarity = 1
        /\ IsResolution(results[u], "error")

\* C3: the list batch_process_tickets returns has one element per input
\* ticket, and element i is the resolution of input ticket i.
C3_BatchOrder ==
    batchPc = "returned" =>
        /\ returned.class = "list"
        /\ Len(returned.items) = Len(tickets)
        /\ \A i \in 1..Len(tickets) :
              /\ returned.items[i].class = "TicketResolution"
              /\ returned.items[i].ticket_id = tickets[i].id

\* C3 happens: a batch of at least two tickets has returned, with resolutions
\* of both statuses in it.
C3_Witness ==
    /\ batchPc = "returned"
    /\ Len(tickets) >= 2
    /\ IsResolution(returned.items[1], "error")
    /\ IsResolution(returned.items[Len(tickets)], "completed")

\* C4: failures are isolated.  In the list the batch returns, every ticket
\* none of whose own agent calls raised has a completed resolution, whichever
\* other tickets of the batch failed.
C4_FailureIsolation ==
    batchPc = "returned" =>
        \A t \in Tasks :
            raised[t] = None => IsResolution(returned.items[t], "completed")

\* C4 happens: in a batch of two, ticket 1 failed in the response generation,
\* after it had written the shared context, and ticket 2 is completed.
C4_Witness ==
    /\ batchPc = "returned"
    /\ Len(tickets) = 2
    /\ 1 \in RaisingIn("generate_response")
    /\ IsResolution(returned.items[1], "error")
    /\ raised[2] = None
    /\ IsResolution(returned.items[2], "completed")

\* C5: batch_process_tickets returns a list and does not raise, and every
\* element of the list is a TicketResolution, never an exception object.
C5_BatchNeverRaises ==
    batchPc = "returned" =>
        /\ returned.class = "list"
        /\ \A i \in DOMAIN returned.items :
              returned.items[i].class = "TicketResolution"

\* C5 happens: a batch of at least two tickets in which every ticket failed,
\* in the analysis and in the response generation, has returned.
C5_Witness ==
    /\ batchPc = "returned"
    /\ Len(tickets) >= 2
    /\ Raising = Tasks
    /\ RaisingIn("analyze_ticket") # {}
    /\ RaisingIn("generate_response") # {}

\* Whether ctx holds what ticket t's own analysis step wrote.
OwnContext(ctx, t, ticket_analysis) ==
    /\ {"ticket_id", "category", "priority", "customer_info"} \subseteq DOMAIN ctx
    /\ ctx.ticket_id = tickets[t].id
    /\ ctx.category = ticket_analysis.category.value
    /\ ctx.priority = ticket_analysis.priority.value
    /\ ctx.customer_info = tickets[t].customer_info

\* The dict that json.loads would read back from the text `dumped`.
Loaded(dumped) == [k \in DumpedKeys(dumped) |-> Dumped(dumped, k)]

\* C6: the response step of a ticket sees its own context only.  When
\* generate_response is invoked for ticket t the shared context holds t's id,
\* category, priority and customer_info, and so does the context serialized
\* into t's prompt.
C6_OwnContextInResponse ==
    \A t \in Tasks :
        /\ pc[t] = "context_updated" => OwnContext(context, t, analysis[t])
        /\ pc[t] = "generation_call" =>
              OwnContext(Loaded(prompt[t].context), t, prompt[t].analysis)

\* C6 happens: the generation call of the second ticket of a batch is
\* outstanding after the first ticket, of another category and with other
\* customer_info, has written the shared context.
C6_Witness ==
    \E t \in Tasks :
        /\ t > 1
        /\ pc[t] = "generation_call"
        /\ IsResolution(results[t - 1], "completed")
        /\ results[t - 1].analysis.category # prompt[t].analysis.category
        /\ tickets[t - 1].customer_info # tickets[t].customer_info

\* The positions at which an external call is outstanding.
OutstandingCall == {"extraction_call", "similarity_call", "generation_call"}

\* C7: one ticket's external call does not block another's resolution: while
\* a ticket's extraction, similarity or generation call is outstanding, a
\* ticket waiting in the same batch can start.
C7_CallsDoNotBlock ==
    (/\ \E a \in Tasks : pc[a] \in OutstandingCall
     /\ \E b \in Tasks : pc[b] = "pending")
        => ENABLED (\E b \in Tasks : TaskStart(b))

\* C8: generate_response is invoked for a ticket only after analyze_ticket
\* has returned its analysis and the shared context has been updated with it,
\* and never for a ticket whose analysis raised.
C8_AnalysisBeforeResponse ==
    /\ [](\A t \in RaisingIn("analyze_ticket") : calls[t].generation = 0)
    /\ [][\A t \in Tasks :
            calls'[t].generation # calls[t].generation =>
                /\ calls[t].extraction = 1
                /\ calls[t].similarity = 1
                /\ analysis[t] # None
                /\ t \notin Raising
                /\ OwnContext(context, t, analysis[t])
                /\ prompt'[t].analysis = analysis[t]]_vars

\* C8 happens: one ticket's generation call is outstanding while another
\* ticket of the batch has ended in a failed analysis.
C8_Witness ==
    \E t, u \in Tasks :
        /\ pc[t] = "generation_call"
        /\ calls[t].generation = 1
        /\ u \in RaisingIn("analyze_ticket")
        /\ calls[u].similarity = 1
        /\ calls[u].generation = 0

\* The state of a ticket's resolution, from the position of its
\* process_ticket and what it ended with.
PhaseOf(position, result) ==
    CASE position \in {"unborn", "pending"} -> "Submitted"
      [] position = "started" -> "Started"
      [] position \in {"extraction_call", "similarity_call"} -> "Analyzing"
      [] position \in {"analyzed", "context_updated", "generation_call", "timed"}
            -> "Responding"
      [] position = "done" /\ IsResolution(result, "completed") -> "Completed"
      [] OTHER -> "Failed"

\* The transitions of a ticket's resolution.
PhaseTransitions ==
    {<<"Submitted", "Started">>, <<"Started", "Analyzing">>,
     <<"Analyzing", "Responding">>, <<"Responding", "Completed">>,
     <<"Analyzing", "Failed">>, <<"Responding", "Failed">>}

\* C9: a ticket's resolution moves only Started -> Analyzing -> Responding ->
\* Completed, or from Analyzing or Responding to Failed; Completed and Failed
\* are final; and each of the three external calls is made at most once per
\* process_ticket.
C9_StateMachine ==
    /\ [](\A t \in Tasks :
            /\ calls[t].extraction <= 1
            /\ calls[t].similarity <= 1
            /\ calls[t].generation <= 1)
    /\ [][\A t \in Tasks :
            LET before == PhaseOf(pc[t], results[t])
                after  == PhaseOf(pc'[t], results'[t])
            IN  before # after => <<before, after>> \in PhaseTransitions]_vars

\* C9 happens: a batch has a completed ticket, with one call of each kind,
\* and a ticket that failed in the response generation, with one call of
\* each kind too.
C9_Witness ==
    \E t, u \in Tasks :
        /\ PhaseOf(pc[t], results[t]) = "Completed"
        /\ calls[t] = [extraction |-> 1, similarity |-> 1, generation |-> 1]
        /\ PhaseOf(pc[u], results[u]) = "Failed"
        /\ u \in RaisingIn("generate_response")
        /\ calls[u] = [extraction |-> 1, similarity |-> 1, generation |-> 1]

\* C10: the sentiment of every TicketAnalysis lies in [-1, 1].
C10_SentimentInRange ==
    \A t \in Tasks :
        analysis[t] # None =>
            /\ analysis[t].sentiment >= -MaxScore
            /\ analysis[t].sentiment <= MaxScore

\* Whether a logged extraction answer carries a result that follows the
\* declared schema.
WellFormed(answer) ==
    /\ answer # None
    /\ answer.kind = "tool_call"
    /\ answer.json
    /\ answer.value \in {AccessUrgent, BillingMedium}

\* Whether a logged similarity answer is a failure of the call: it raised,
\* its body is not JSON, or its body is not a list of at least two numbers.
SimilarityFailed(answer) ==
    /\ answer # None
    /\ \/ answer.kind = "raise"
       \/ answer.json # "list"
       \/ "list" \notin DOMAIN answer
       \/ Len(answer.list) < 2

\* The positions at which process_ticket holds the analysis.
HoldingAnalysis == {"analyzed", "context_updated", "generation_call", "timed"}

\* C11: a failure of the similarity call makes the sentiment exactly 0.0 and
\* does not propagate.  After a failed similarity call the sentiment of the
\* analysis, in process_ticket and in the completed resolution, is 0, and
\* when the extraction result followed the schema analyze_ticket did not
\* raise.
C11_SentimentFallback ==
    \A t \in Tasks :
        SimilarityFailed(heard.similarity) =>
            /\ pc[t] \in HoldingAnalysis => analysis[t].sentiment = 0
            /\ IsResolution(results[t], "completed") =>
                  results[t].analysis.sentiment = 0
            /\ WellFormed(heard.extraction) => t \notin RaisingIn("analyze_ticket")

\* Whether a logged answer carries a result that lacks one of `required`.
LacksField(answer, required) ==
    /\ answer # None
    /\ answer.kind = "tool_call"
    /\ answer.json
    /\ required \ DOMAIN answer.value # {}

\* C12: an extraction result that lacks a required field ends in an error
\* resolution.  After such a result process_ticket never holds an analysis
\* and never makes the generation call, and when it has returned, its
\* resolution has status "error", no analysis, and a non-empty error message.
C12_MissingFieldIsError ==
    \A t \in Tasks :
        LacksField(heard.extraction, ExtractionRequired) =>
            /\ analysis[t] = None
            /\ pc[t] \notin HoldingAnalysis
            /\ calls[t].generation = 0
            /\ pc[t] = "done" =>
                  /\ IsResolution(results[t], "error")
                  /\ results[t].analysis = None
                  /\ results[t].error # None
                  /\ Len(results[t].error.text) > 0

\* C12 happens: the extraction result lacked only the last field the
\* construction reads, the similarity call was made, and process_ticket
\* returned the error resolution naming the field.
C12_Witness ==
    \E t \in Tasks :
        /\ pc[t] = "done"
        /\ heard.extraction = ToolCall(Without(AccessUrgent, "suggested_response_type"))
        /\ calls[t] = [extraction |-> 1, similarity |-> 1, generation |-> 0]
        /\ IsResolution(results[t], "error")
        /\ results[t].error = Text(<<"'", "suggested_response_type", "'">>)

\* Whether a logged extraction answer carries a result that deviates from
\* the declared schema.
Deviates(answer) ==
    /\ answer # None
    /\ answer.kind = "tool_call"
    /\ answer.json
    /\ answer.value \notin {AccessUrgent, BillingMedium}

\* C13: analyze_ticket rejects every extraction result that deviates from
\* the declared schema.  After such a result process_ticket never holds an
\* analysis, and when it has ended, analyze_ticket had raised.
C13_DeviationsRejected ==
    \A t \in Tasks :
        Deviates(heard.extraction) =>
            /\ analysis[t] = None
            /\ pc[t] \notin HoldingAnalysis
            /\ pc[t] = "done" => t \in RaisingIn("analyze_ticket")

\* C14: the response of every completed resolution has a confidence_score
\* in [0, 1] and a boolean requires_approval; a generation result with a
\* confidence outside [0, 1] ends in an error resolution.
C14_ConfidenceChecked ==
    \A t \in Tasks :
        IsResolution(results[t], "completed") =>
            /\ results[t].response.confidence_score >= 0
            /\ results[t].response.confidence_score <= MaxScore
            /\ results[t].response.requires_approval \in BOOLEAN

\* C15: the processing_time of every returned resolution, completed or
\* error, is at least 0 and is a reading of the clock minus the start_time
\* taken at the entry of process_ticket.
C15_ProcessingTime ==
    \A t \in Tasks :
        (pc[t] = "done" /\ results[t].class = "TicketResolution") =>
            /\ results[t].processing_time >= 0
            /\ \E now \in 0..MaxClock :
                  results[t].processing_time = now - start_time[t]

\* C16: get_processing_stats can be called in every state; it returns a
\* mapping with exactly the keys total_processed, last_processed and
\* context_size, where total_processed is the number of entries of the
\* shared context and last_processed its analysis_timestamp, None when it
\* has none; and the call leaves the shared context as it was.
C16_StatsSnapshot ==
    /\ [](ENABLED GetStats)
    /\ [][stats' # stats =>
            /\ DOMAIN stats' = StatsKeys
            /\ stats'.total_processed = Cardinality(DOMAIN context)
            /\ stats'.last_processed =
                  IF "analysis_timestamp" \in DOMAIN context
                  THEN context.analysis_timestamp ELSE None
            /\ context' = context]_vars

\* C16 happens: the statistics were read while the second ticket of the
\* batch was being resolved, after the first had written the context.
C16_Witness ==
    /\ running = 2
    /\ pc[2] = "extraction_call"
    /\ DOMAIN context # {}
    /\ stats # None
    /\ stats.total_processed = Cardinality(DOMAIN context)
    /\ stats.last_processed = context.analysis_timestamp

\* The context that holds what the analysis step of ticket t wrote at `now`
\* and nothing else.
FreshContext(t, ticket_analysis, now) ==
    [ticket_id |-> tickets[t].id,
     analysis_timestamp |-> Isoformat(now),
     category |-> ticket_analysis.category.value,
     priority |-> ticket_analysis.priority.value,
     customer_info |-> tickets[t].customer_info]

\* C18: the analysis step overwrites the context.  Once analyze_ticket has
\* succeeded for ticket t and the merge is done, every entry of the shared
\* context is t's own, whatever an earlier ticket left there, and the
\* context written into t's generation prompt is that same context: it
\* holds no value of a ticket processed before.
C18_ContextOverwritten ==
    \A t \in Tasks :
        /\ pc[t] = "context_updated" => context = FreshContext(t, analysis[t], clock)
        /\ pc[t] = "generation_call" =>
              Loaded(prompt[t].context) = FreshContext(t, prompt[t].analysis, clock)

\* C18 happens: the last ticket of a batch of at least two has merged its
\* analysis after the ticket before it completed with another category,
\* another priority and other customer_info.
C18_Witness ==
    \E t \in Tasks :
        /\ t > 1
        /\ pc[t] = "context_updated"
        /\ IsResolution(results[t - 1], "completed")
        /\ results[t - 1].analysis.category # analysis[t].category
        /\ results[t - 1].analysis.priority # analysis[t].priority
        /\ tickets[t - 1].customer_info # tickets[t].customer_info
        /\ context.customer_info = tickets[t].customer_info

\* The tickets whose analysis has been merged into the shared context.
Merged ==
    {t \in Tasks : pc[t] \in {"context_updated", "generation_call"}
                      \/ calls[t].generation > 0}

\* C19: total_processed does not count tickets.  The key set of the shared
\* context is empty or exactly the five keys of the merge, and no step
\* removes a key; every reading of the statistics gives total_processed 0
\* while no ticket's analysis has been merged and 5 from then on, however
\* many tickets have been.
C19_TotalProcessed ==
    /\ [](DOMAIN context \in {{}, {ContextKeys[i] : i \in DOMAIN ContextKeys}})
    /\ [][/\ DOMAIN context \subseteq DOMAIN context'
          /\ stats' # stats =>
                stats'.total_processed = IF Merged = {} THEN 0 ELSE 5]_vars

\* C19 happens: both tickets of a batch have been merged, and the statistics
\* read after the second say 5.
C19_Witness ==
    /\ Cardinality(Merged) = 2
    /\ DOMAIN context # {}
    /\ context.ticket_id = tickets[2].id
    /\ stats = GetProcessingStats(context)
    /\ stats.total_processed = 5

\* Whether ticket t has its record: process_ticket has returned a resolution
\* in a terminal status.
Resolved(t) ==
    /\ t \in Tasks
    /\ pc[t] = "done"
    /\ results[t].class = "TicketResolution"
    /\ results[t].status \in {"completed", "error"}

\* C20: every submitted ticket eventually gets its record.  When every step
\* that can be taken eventually is, each process_ticket of the batch
\* eventually returns a resolution in a terminal status, and the batch
\* eventually returns, with every one of its tickets resolved.
C20_EveryTicketResolved ==
    /\ \A t \in 1..MaxTickets :
          (t \in Tasks /\ pc[t] = "pending") ~> Resolved(t)
    /\ <>(batchPc = "returned" /\ \A t \in Tasks : Resolved(t))

\* C20 happens: a batch of two has returned, its first ticket resolved as
\* completed and its second as an error of the response generation.
C20_Witness ==
    /\ batchPc = "returned"
    /\ Len(tickets) = 2
    /\ Resolved(1) /\ results[1].status = "completed"
    /\ Resolved(2) /\ results[2].status = "error"
    /\ 2 \in RaisingIn("generate_response")

\* C21: processing_time runs to the instant the record carries.  In every
\* returned resolution, completed or error, processing_time equals
\* processed_at minus the start_time taken at the entry of process_ticket,
\* wherever the clock advanced in between.
C21_ElapsedToRecord ==
    \A t \in Tasks :
        (pc[t] = "done" /\ results[t].class = "TicketResolution") =>
            results[t].processing_time = results[t].processed_at - start_time[t]

\* The fields of a TicketAnalysis.
TicketAnalysisFields ==
    {"category", "priority", "key_points", "required_expertise", "sentiment",
     "urgency_indicators", "business_impact", "suggested_response_type"}

\* Whether a logged extraction answer gave analyze_ticket no result: the
\* call raised, or what it returned could not be parsed.
Unparsed(answer) ==
    /\ answer # None
    /\ \/ answer.kind = "raise"
       \/ ~ParseArguments(answer).ok

\* Whether a is what analyze_ticket returns for ticket t: all eight fields,
\* after one extraction call that was parsed and one similarity call that
\* ended.
ReturnedAnalysis(t, a) ==
    /\ a # None
    /\ DOMAIN a = TicketAnalysisFields
    /\ calls[t].extraction = 1 /\ calls[t].similarity = 1
    /\ pc[t] \notin {"extraction_call", "similarity_call"}
    /\ heard.extraction # None /\ ~Unparsed(heard.extraction)
    /\ heard.similarity # None
    /\ \A i \in DOMAIN AnalysisKeys :
          a[AnalysisKeys[i]] = heard.extraction.value[AnalysisKeys[i]]

\* C22: analyze_ticket returns only after the extraction call and the
\* sentiment computation have both ended, and what it returns has all eight
\* fields; process_ticket holds an analysis only at the positions after that
\* return, and holds none, makes no similarity call and returns a
\* resolution without analysis when the extraction call raised or its
\* result could not be parsed.
C22_AnalysisComplete ==
    \A t \in Tasks :
        /\ analysis[t] # None <=> pc[t] \in HoldingAnalysis
        /\ pc[t] \in HoldingAnalysis => ReturnedAnalysis(t, analysis[t])
        /\ IsResolution(results[t], "completed") =>
              ReturnedAnalysis(t, results[t].analysis)
        /\ Unparsed(heard.extraction) =>
              /\ analysis[t] = None
              /\ calls[t].similarity = 0
              /\ pc[t] = "done" =>
                    /\ IsResolution(results[t], "error")
                    /\ results[t].analysis = None

\* C22 happens: analyze_ticket has returned an analysis of all eight fields
\* after a similarity call that failed, and process_ticket holds it.
C22_Witness ==
    \E t \in Tasks :
        /\ pc[t] = "analyzed"
        /\ heard.extraction = ToolCall(BillingMedium)
        /\ heard.similarity = [kind |-> "body", json |-> "garbled"]
        /\ DOMAIN analysis[t] = TicketAnalysisFields
        /\ analysis[t].sentiment = 0
        /\ calls[t] = [extraction |-> 1, similarity |-> 1, generation |-> 0]

\* Whether a logged similarity answer is a list that starts with two scores.
Scored(answer) ==
    /\ answer # None
    /\ answer.kind = "body"
    /\ answer.json = "list"
    /\ "list" \in DOMAIN answer
    /\ Len(answer.list) >= 2

\* Whether a logged similarity answer made the try block of
\* _analyze_sentiment raise: the call raised, json.loads raised, or the
\* subscripts or the subtraction did.
SimilarityRaised(answer) ==
    /\ answer # None
    /\ \/ answer.kind = "raise"
       \/ answer.json # "list"
       \/ "strings" \in DOMAIN answer
       \/ "list" \in DOMAIN answer /\ Len(answer.list) < 2

\* Whether the first two entries of a logged similarity answer are equal.
EqualEntries(answer) ==
    \/ Scored(answer) /\ answer.list[1] = answer.list[2]
    \/ /\ answer # None
       /\ "flags" \in DOMAIN answer
       /\ answer.flags[1] = answer.flags[2]

\* What C23 says of the sentiment s computed from a logged similarity answer.
DifferenceOfScores(answer, s) ==
    /\ Scored(answer) => s = answer.list[1] - answer.list[2]
    /\ s = 0 => SimilarityRaised(answer) \/ EqualEntries(answer)

InAnalyzeTicket == {"started", "extraction_call", "similarity_call"}
InGenerateResponse == {"context_updated", "generation_call"}

\* C24: the agents leave the orchestrator's state alone.  No step changes
\* the tickets; a step that process_ticket takes from a position inside
\* analyze_ticket or generate_response leaves the shared context as it was;
\* and the shared context changes only in the step that process_ticket takes
\* between an analysis that succeeded and the response generation.
C24_AgentsStateless ==
    [][/\ tickets' = tickets
       /\ \A t \in Tasks :
             (pc[t] \in InAnalyzeTicket \cup InGenerateResponse /\ pc'[t] # pc[t]) =>
                 context' = context
       /\ context' # context =>
             \E t \in Tasks :
                 /\ running = t
                 /\ pc[t] = "analyzed" /\ analysis[t] # None
                 /\ pc'[t] = "context_updated"
                 /\ context' = ContextUpdate(context, tickets[t], analysis[t], clock)]_vars

\* C24 happens: the first ticket of a batch has completed, both agents
\* having run after its merge, and analyze_ticket is at its second call for
\* the next ticket, with the context still the one the first ticket wrote.
C24_Witness ==
    /\ Len(tickets) = 2
    /\ IsResolution(results[1], "completed")
    /\ pc[2] = "similarity_call"
    /\ context = FreshContext(1, results[1].analysis, clock)

\* Whether the analysis a carries the category and the priority of the
\* logged extraction result.
ClassifiedAsExtracted(a) ==
    /\ a.category.value = heard.extraction.value.category
    /\ a.priority.value = heard.extraction.value.priority

\* Whether the response r carries the requires_approval of the logged
\* generation result.
ApprovalAsGenerated(r) ==
    r.requires_approval = heard.generation.value.requires_approval

\* C25: nothing is overridden.  The category and the priority of the
\* analysis that process_ticket holds or returns are those of the extraction
\* result, and the requires_approval of the response it holds or returns is
\* that of the generation result, whatever the category and the priority.
C25_PassedThrough ==
    \A t \in Tasks :
        /\ pc[t] \in HoldingAnalysis => ClassifiedAsExtracted(analysis[t])
        /\ pc[t] = "timed" => ApprovalAsGenerated(response[t])
        /\ IsResolution(results[t], "completed") =>
              /\ ClassifiedAsExtracted(results[t].analysis)
              /\ ApprovalAsGenerated(results[t].response)

\* C25 happens: a resolution completed for an analysis of category access
\* and priority urgent with a response that asks for no approval.
C25_Witness ==
    \E t \in Tasks :
        /\ IsResolution(results[t], "completed")
        /\ heard.extraction = ToolCall(AccessUrgent)
        /\ heard.generation = ToolCall(Unapproved)
        /\ results[t].analysis.category.value = "access"
        /\ results[t].analysis.priority.value = 4
        /\ results[t].response.requires_approval = FALSE

\* Whether ticket t is the last whose analysis was merged into the shared
\* context.
LastMerged(t) ==
    /\ t \in Merged
    /\ \A u \in Merged : u <= t

\* Whether the shared context holds the entries ticket t wrote.
HoldsEntriesOf(t) ==
    /\ DOMAIN context = {ContextKeys[i] : i \in DOMAIN ContextKeys}
    /\ context.ticket_id = tickets[t].id
    /\ context.customer_info = tickets[t].customer_info

\* C26: a failed analysis writes nothing and a failed generation undoes
\* nothing.  A process_ticket in which analyze_ticket raised takes no step
\* that changes the shared context and leaves no entry of its ticket there;
\* one in which generate_response raised leaves the entries it merged, in
\* its handler and after it has returned its error resolution, and a reading
\* of the statistics then gives the analysis_timestamp of that ticket as
\* last_processed.
C26_NoRollback ==
    /\ [](\A t \in RaisingIn("analyze_ticket") :
            /\ t \notin Merged
            /\ DOMAIN context # {} => context.ticket_id # tickets[t].id)
    /\ [](\A t \in RaisingIn("generate_response") :
            LastMerged(t) =>
                /\ HoldsEntriesOf(t)
                /\ pc[t] = "done" => IsResolution(results[t], "error"))
    /\ [][/\ \A t \in Tasks :
               (pc[t] \in InAnalyzeTicket \cup {"handling"} /\ pc'[t] # pc[t]) =>
                   context' = context
          /\ \A t \in RaisingIn("generate_response") :
               (LastMerged(t) /\ stats' # stats) =>
                   /\ stats'.last_processed = context.analysis_timestamp
                   /\ stats'.total_processed = Cardinality(DOMAIN context)]_vars

\* C26 happens: generate_response raised for the first ticket of a batch and
\* analyze_ticket for the second; both returned error resolutions, the
\* context holds the entries of the first, and the statistics read then
\* name its analysis_timestamp.
C26_Witness ==
    /\ Len(tickets) = 2
    /\ 1 \in RaisingIn("generate_response") /\ IsResolution(results[1], "error")
    /\ 2 \in RaisingIn("analyze_ticket") /\ IsResolution(results[2], "error")
    /\ HoldsEntriesOf(1)
    /\ stats # None
    /\ stats.last_processed = context.analysis_timestamp

\* C27: every caller branches on status.  A caller that has gone on with a
\* resolution read analysis and response and not error when the status is
\* "completed", read error and neither analysis nor response otherwise, and
\* was not ended by an exception.
C27_CallersCheckStatus ==
    \A t \in Tasks :
        shown[t] # None =>
            /\ shown[t].raised = None
            /\ shown[t].read = IF results[t].status = "completed"
                               THEN {"analysis", "response"} ELSE {"error"}

=============================================================================
